---- MODULE Spec2Model ----
(***************************************************************************)
(* Model of dataset_comparison_app.py: the comparison engine               *)
(* compare_datasets (rename, full outer merge with indicator, relabel,     *)
(* identity test, mismatched rows, the except branch), the column matcher  *)
(* get_matching_columns, and the Streamlit script main (session state,     *)
(* widgets, one run of the script per user interaction).                   *)
(*                                                                         *)
(* A DataFrame is [columns |-> sequence of labels, rows |-> sequence of    *)
(* rows], a row of an input frame being the tuple of its cell values in    *)
(* column order.  Cell values are integers and the missing value NaN.      *)
(* The pandas primitives the function calls (DataFrame.rename, pd.merge,   *)
(* Series.map, boolean row selection, len) are modelled by what pandas     *)
(* documents for them.                                                     *)
(***************************************************************************)
EXTENDS Integers, Sequences, FiniteSets, TLC

\* ---------------------------------------------------------------- bounds
\* most rows of a one-column dataset
MaxRows == 3
\* the cells of the datasets of several columns are 1..MaxVal
MaxVal == 2

\* ------------------------------------------------------------ data model

\* the column names that occur in the datasets, and their order in a file
ColNames == {"a", "b", "c"}
ColOrder == <<"a", "b", "c">>

\* the names of the uploaded files, '.csv' removed
FileNames == {"left", "right"}

\* the columns of a dataset, in file order
ColSeq(S) == LET In(c) == c \in S IN SelectSeq(ColOrder, In)

Vals == 1..MaxVal

\* the missing value read_csv yields for an empty cell, encoded as a number
\* that is no cell value
NaN == MaxVal + 1

Range(s) == {s[i] : i \in DOMAIN s}

SeqsUpTo(S, n) == UNION {[1..k -> S] : k \in 0..n}

\* pd.DataFrame(): no columns, no rows
EmptyFrame == [columns |-> <<>>, rows |-> <<>>]

\* len(df)
FrameLen(df) == Len(df.rows)

\* how often a label occurs among the columns of a frame
Occurs(df, c) == Cardinality({i \in DOMAIN df.columns : df.columns[i] = c})

\* position of the column labelled c
ColIdx(df, c) == CHOOSE i \in DOMAIN df.columns : df.columns[i] = c

\* df.rename(columns=mapper): every label that is a key of the mapper is
\* replaced by the mapper's value for it, all labels at once
Rename(df, mapper) ==
  [df EXCEPT !.columns =
     [i \in DOMAIN df.columns |->
        IF df.columns[i] \in DOMAIN mapper THEN mapper[df.columns[i]]
                                            ELSE df.columns[i]]]

\* ------------------------------------------------------------- pd.merge
\* mutant of KeyEq: SQL null semantics, a missing key matches nothing
KeyEqSql(x, y) == x = y /\ x # NaN

\* equality of two join-key values: pandas matches a missing key with a
\* missing key ("If both key columns contain rows where the key is a null
\* value, those rows will be matched against each other")
KeyEq(x, y) == x = y

\* order of two key values in the sorted result, missing values last
ValLess(x, y) == x # NaN /\ (y = NaN \/ x < y)

\* the join keys in file order
OnList(on) == LET IsKey(c) == c \in on IN SelectSeq(ColOrder, IsKey)

\* pd.merge raises instead of joining: no key at all (IndexError), or a key
\* that is not the label of exactly one column of each frame (KeyError,
\* or ValueError for a label that is not unique)
MergeRaises(left, right, on) ==
  \/ on = {}
  \/ \E k \in on : Occurs(left, k) # 1 \/ Occurs(right, k) # 1

\* row i of left and row j of right agree on every join key
KeyMatch(left, right, on, i, j) ==
  \A k \in on : KeyEq(left.rows[i][ColIdx(left, k)],
                      right.rows[j][ColIdx(right, k)])

\* mutant of JoinPairs: how='left', the unmatched right rows are dropped
JoinPairsLeft(left, right, on) ==
  LET I == DOMAIN left.rows
      J == DOMAIN right.rows
  IN  {p \in I \X J : KeyMatch(left, right, on, p[1], p[2])}
      \cup {<<i, 0>> : i \in {x \in I : \A j \in J : ~KeyMatch(left, right, on, x, j)}}

\* mutant of JoinPairs: how='inner', the unmatched rows are dropped
JoinPairsInner(left, right, on) ==
  {p \in (DOMAIN left.rows) \X (DOMAIN right.rows) :
     KeyMatch(left, right, on, p[1], p[2])}

\* how='outer': the pairs <<i, j>> of matching rows, <<i, 0>> for a left row
\* without a match and <<0, j>> for a right row without a match
JoinPairs(left, right, on) ==
  LET I == DOMAIN left.rows
      J == DOMAIN right.rows
  IN  {p \in I \X J : KeyMatch(left, right, on, p[1], p[2])}
      \cup {<<i, 0>> : i \in {x \in I : \A j \in J : ~KeyMatch(left, right, on, x, j)}}
      \cup {<<0, j>> : j \in {y \in J : \A i \in I : ~KeyMatch(left, right, on, i, y)}}

\* the join key of a pair, as the tuple of its values in key order
PairKey(left, right, on, p) ==
  LET ks == OnList(on)
  IN  [n \in DOMAIN ks |->
         IF p[1] # 0 THEN left.rows[p[1]][ColIdx(left, ks[n])]
                     ELSE right.rows[p[2]][ColIdx(right, ks[n])]]

\* lexicographic order of two key tuples of the same length
KeyLess(k1, k2) ==
  \E n \in DOMAIN k1 :
     /\ ValLess(k1[n], k2[n])
     /\ \A m \in 1..(n - 1) : k1[m] = k2[m]

\* the outer join sorts the result by join key; rows of one key keep the
\* order of the left rows, then of the right rows.  e and f are pairs
\* tagged with their key, <<key, i, j>>
TaggedLess(e, f) ==
  \/ KeyLess(e[1], f[1])
  \/ /\ e[1] = f[1]
     /\ \/ e[2] < f[2]
        \/ e[2] = f[2] /\ e[3] < f[3]

\* the tagged pairs of S in ascending order (insertion sort)
RECURSIVE SortTagged(_)
SortTagged(S) ==
  IF S = {} THEN <<>>
  ELSE LET e == CHOOSE x \in S : TRUE
           rest == SortTagged(S \ {e})
           k == Cardinality({n \in DOMAIN rest : TaggedLess(rest[n], e)})
       IN  SubSeq(rest, 1, k) \o <<e>> \o SubSeq(rest, k + 1, Len(rest))

\* the rows of the merged frame, in order, as pairs of source rows
MergePairs(left, right, on) ==
  LET tagged == {<<PairKey(left, right, on, p), p[1], p[2]>> :
                   p \in JoinPairs(left, right, on)}
      sorted == SortTagged(tagged)
  IN  [n \in DOMAIN sorted |-> <<sorted[n][2], sorted[n][3]>>]

\* positions of the columns of right that are not join keys
NonKeyIdx(right, on) ==
  LET NotKey(i) == right.columns[i] \notin on
  IN  SelectSeq([i \in DOMAIN right.columns |-> i], NotKey)

\* mutant of MergedColumns: no suffixes, colliding labels stay as they are
MergedColumnsNoSuffix(left, right, on) ==
  LET rk == NonKeyIdx(right, on)
  IN  [i \in DOMAIN left.columns |-> <<left.columns[i], "">>]
      \o [n \in DOMAIN rk |-> <<right.columns[rk[n]], "">>]

\* labels of the merged frame: the columns of left in place, then the
\* non-key columns of right; a non-key label that both frames carry gets the
\* suffix _x on the left column and _y on the right column
MergedColumns(left, right, on) ==
  LET rk == NonKeyIdx(right, on)
      rnames == {right.columns[rk[n]] : n \in DOMAIN rk}
      lnames == Range(left.columns) \ on
  IN  [i \in DOMAIN left.columns |->
         <<left.columns[i],
           IF left.columns[i] \notin on /\ left.columns[i] \in rnames
             THEN "_x" ELSE "">>]
      \o
      [n \in DOMAIN rk |->
         <<right.columns[rk[n]],
           IF right.columns[rk[n]] \in lnames THEN "_y" ELSE "">>]

\* indicator=True: the label of the column pd.merge appends
IndicatorColumn == <<"_merge", "">>

\* indicator=True: the _merge value of a joined row
Indicator(p) ==
  IF p[2] = 0 THEN "left_only" ELSE IF p[1] = 0 THEN "right_only" ELSE "both"

\* the cells of the joined row of a pair: the left row (for a right-only row
\* the keys come from the right row, the other left cells are missing), then
\* the non-key cells of the right row (missing for a left-only row)
MergedRow(left, right, on, p) ==
  LET rk == NonKeyIdx(right, on)
      lv == [n \in DOMAIN left.columns |->
               IF p[1] # 0 THEN left.rows[p[1]][n]
               ELSE IF left.columns[n] \in on
                    THEN right.rows[p[2]][ColIdx(right, left.columns[n])]
                    ELSE NaN]
      rv == [n \in DOMAIN rk |->
               IF p[2] # 0 THEN right.rows[p[2]][rk[n]] ELSE NaN]
  IN  [vals |-> lv \o rv, _merge |-> Indicator(p)]

\* pd.merge(left, right, on=on, how='outer', indicator=True), for arguments
\* it does not raise on; the indicator column is kept as the field _merge
\* of each row
Merge(left, right, on) ==
  LET ps == MergePairs(left, right, on)
  IN  [columns |-> MergedColumns(left, right, on) \o <<IndicatorColumn>>,
       rows    |-> [n \in DOMAIN ps |-> MergedRow(left, right, on, ps[n])]]

\* ------------------------------------------------------ compare_datasets
\* merged.rename(columns={'_merge': 'Dataset'})
RenameIndicator(m) ==
  [columns |-> [i \in DOMAIN m.columns |->
                  IF m.columns[i] = IndicatorColumn THEN <<"Dataset", "">>
                                                    ELSE m.columns[i]],
   rows    |-> [n \in DOMAIN m.rows |->
                  [vals |-> m.rows[n].vals, Dataset |-> m.rows[n]._merge]]]

\* f'In both {left_filename} and {right_filename}'
InBothLabel(lf, rf) == <<"In both", lf, "and", rf>>

\* the dictionary of the .map call: indicator value to display label
DatasetLabel(code, lf, rf) ==
  CASE code = "left_only"  -> <<"Only in", lf>>
    [] code = "right_only" -> <<"Only in", rf>>
    [] code = "both"       -> InBothLabel(lf, rf)

\* merged['Dataset'] = merged['Dataset'].map({...})
MapDataset(m, lf, rf) ==
  [m EXCEPT !.rows =
     [n \in DOMAIN m.rows |->
        [m.rows[n] EXCEPT !.Dataset = DatasetLabel(@, lf, rf)]]]

\* mutant of NotInBoth: the label compared with names the files in the
\* other order
NotInBothSwapped(m, lf, rf) ==
  LET Differs(r) == r.Dataset # InBothLabel(rf, lf)
  IN  [m EXCEPT !.rows = SelectSeq(m.rows, Differs)]

\* merged[merged['Dataset'] != f'In both ...']: the rows that are not
\* labelled in-both, in the order of merged
NotInBoth(m, lf, rf) ==
  LET Differs(r) == r.Dataset # InBothLabel(lf, rf)
  IN  [m EXCEPT !.rows = SelectSeq(m.rows, Differs)]

\* the is_identical expression
IsIdentical(m, d1, d2, lf, rf) ==
  /\ FrameLen(NotInBoth(m, lf, rf)) = 0
  /\ FrameLen(d1) = FrameLen(d2)

\* the try block raises
Raises(d1, d2, mapping) ==
  MergeRaises(d1, Rename(d2, mapping), DOMAIN mapping)

\* the merged frame of the try block, relabelled
MergedOf(d1, d2, mapping, lf, rf) ==
  LET df1_copy == d1
      df2_copy == Rename(d2, mapping)
  IN  MapDataset(RenameIndicator(Merge(df1_copy, df2_copy, DOMAIN mapping)),
                 lf, rf)

\* one run of the function body: whether the except branch ran, the local
\* merged (left as it was when the try block raised), and the value
\* returned, the pair (is_identical, mismatched); the except branch returns
\* (False, pd.DataFrame())
Outcome(d1, d2, mapping, lf, rf, merged0) ==
  IF Raises(d1, d2, mapping)
    THEN [raised |-> TRUE, merged |-> merged0, ret |-> <<FALSE, EmptyFrame>>]
    ELSE LET m == MergedOf(d1, d2, mapping, lf, rf)
             mismatched_ == NotInBoth(m, lf, rf)
         IN  [raised |-> FALSE,
              merged |-> m,
              ret    |-> <<IsIdentical(m, d1, d2, lf, rf), mismatched_>>]

\* the value compare_datasets returns
ReturnOf(d1, d2, mapping, lf, rf) ==
  Outcome(d1, d2, mapping, lf, rf, EmptyFrame).ret

\* mutant of InputsAfter: the rename is done in place on the caller's frame
InputsAfterInPlace(d1, d2, mapping) == <<d1, Rename(d2, mapping), mapping>>

\* the caller's objects after a call: the function works on df1.copy() and
\* df2.copy(), rename and merge return new frames, the mapping is only read
InputsAfter(d1, d2, mapping) == <<d1, d2, mapping>>

\* -------------------------------------------------- get_matching_columns
\* mutant of get_matching_columns: right_only computed like left_only
get_matching_columns_same(lc, rc) == <<lc \cap rc, lc \ rc, lc \ rc>>

\* the triple (matching, left_only, right_only)
get_matching_columns(lc, rc) == <<lc \cap rc, lc \ rc, rc \ lc>>

\* ------------------------------------------------- main: the Streamlit script
\* One run of main is one pass over the script with the widget values the
\* front end holds and at most one clicked button.  st.session_state keeps
\* the keys the script writes; a key that was deleted (lines 144-157) is
\* held as the value its initialisation gives it (lines 163-170, 314-317),
\* which runs before any read; the stored result is <<>> while absent and
\* <<value>> once stored.  A widget that a completed run did not draw loses
\* its value and starts from its default when it is drawn again; a widget
\* drawn with other parameters (options, default) is a new widget.

\* the options of the comparison type radio
ComparisonTypes == {"All columns", "Single column", "Custom columns"}

\* 'previous_comparison_type' not in st.session_state
NotSet == ""

NoMapping == "(No mapping)"

\* the empty dictionary
EmptyMapping == [k \in {} |-> ""]

\* mapping[k] = v
Put(m, k, v) == [x \in (DOMAIN m) \cup {k} |-> IF x = k THEN v ELSE m[x]]

\* mapping.pop(k, None)
Pop(m, k) == [x \in (DOMAIN m) \ {k} |-> m[x]]

\* no button was clicked in this run
NoClick == <<"", "">>

\* the session state of a new session
BlankSession ==
  [previous_comparison_type |-> NotSet,
   column_mapping           |-> EmptyMapping,
   removed_auto_columns     |-> {},
   removed_review_columns   |-> {},
   selected_left_cols       |-> <<>>,
   selected_right_cols      |-> <<>>,
   is_identical             |-> <<>>,
   mismatched               |-> <<>>]

\* the options of the filter radio
ShowAll == <<"Show All">>
FilterOptions(lf, rf) ==
  {ShowAll, <<"Only in", lf>>, <<"Only in", rf>>, InBothLabel(lf, rf)}

\* sorted(df.columns)
Sorted(df) == ColSeq(Range(df.columns))

\* every widget at its default value
DefaultWidgets(d1, d2) ==
  [comparison_type   |-> "All columns",
   override          |-> {},
   mapping_auto      |-> [c \in ColNames |-> Sorted(d2)[1]],
   mapping_left      |-> [c \in ColNames |-> NoMapping],
   mapping_right     |-> [c \in ColNames |-> NoMapping],
   single_left       |-> d1.columns[1],
   single_right      |-> d2.columns[1],
   left_cols_select  |-> <<>>,
   right_cols_select |-> <<>>,
   mapping_i         |-> <<>>,
   mapping_options   |-> <<>>,
   filter_option     |-> ShowAll]

\* where the entries of the session mapping and the stored result were
\* produced: the comparison type of the run that wrote each entry; for the
\* result, the comparison type of the run that stored it and the mapping
\* compare_datasets was called with
BlankOrigin == [mapping |-> EmptyMapping, result |-> <<>>]

\* the origins after a run under comparison type t that turned the mapping
\* old into new: an entry the run left as it was keeps its origin
OriginAfter(og, old, new, t) ==
  [og EXCEPT !.mapping =
     [k \in DOMAIN new |->
        IF k \in DOMAIN old /\ k \in DOMAIN og.mapping /\ old[k] = new[k]
          THEN og.mapping[k] ELSE t]]

\* mutant of ResetSession: the column mapping is not deleted
ResetSessionKeepMapping(ss, comparison_type) ==
  [ss EXCEPT !.removed_auto_columns = {},
             !.removed_review_columns = {},
             !.selected_left_cols = <<>>,
             !.selected_right_cols = <<>>,
             !.mismatched = <<>>,
             !.is_identical = <<>>,
             !.previous_comparison_type = comparison_type]

\* lines 143-159: the comparison type changed
ResetSession(ss, comparison_type) ==
  [ss EXCEPT !.column_mapping = EmptyMapping,
             !.removed_auto_columns = {},
             !.removed_review_columns = {},
             !.selected_left_cols = <<>>,
             !.selected_right_cols = <<>>,
             !.mismatched = <<>>,
             !.is_identical = <<>>,
             !.previous_comparison_type = comparison_type]

\* ---- "All columns"
\* lines 194-232: the loop over sorted(matching_cols); a clicked button ends
\* the run with st.rerun()
RECURSIVE AutoLoop(_, _, _, _)
AutoLoop(cols, ss, w, click) ==
  IF cols = <<>> THEN [ss |-> ss, rerun |-> FALSE]
  ELSE LET col == Head(cols)
       IN  IF col \in ss.removed_auto_columns
             THEN IF click = <<"add_back_auto", col>>
                    THEN [ss |-> [ss EXCEPT
                                    !.column_mapping = Put(@, col, col),
                                    !.removed_auto_columns = @ \ {col}],
                          rerun |-> TRUE]
                    ELSE AutoLoop(Tail(cols), ss, w, click)
             ELSE LET s1 == IF col \in w.override
                              THEN [ss EXCEPT !.column_mapping =
                                      Put(@, col, w.mapping_auto[col])]
                              ELSE ss
                  IN  IF click = <<"remove_auto", col>>
                        THEN [ss |-> [s1 EXCEPT
                                        !.column_mapping = Pop(@, col),
                                        !.removed_auto_columns = @ \cup {col}],
                              rerun |-> TRUE]
                        ELSE AutoLoop(Tail(cols), s1, w, click)

\* lines 245-265: the loop over sorted(left_only_cols)
RECURSIVE LeftLoop(_, _, _, _)
LeftLoop(cols, ss, w, click) ==
  IF cols = <<>> THEN [ss |-> ss, rerun |-> FALSE]
  ELSE LET left_col == Head(cols)
       IN  IF left_col \in ss.removed_review_columns
             THEN LeftLoop(Tail(cols), ss, w, click)
             ELSE LET right_col == w.mapping_left[left_col]
                      s1 == IF right_col # NoMapping
                              THEN [ss EXCEPT !.column_mapping =
                                      Put(@, left_col, right_col)]
                              ELSE [ss EXCEPT !.column_mapping =
                                      Pop(@, left_col)]
                  IN  IF click = <<"remove_left", left_col>>
                        THEN [ss |-> [s1 EXCEPT
                                        !.column_mapping = Pop(@, left_col),
                                        !.removed_review_columns =
                                           @ \cup {left_col}],
                              rerun |-> TRUE]
                        ELSE LeftLoop(Tail(cols), s1, w, click)

\* lines 270-291: the loop over sorted(right_only_cols); the Remove button
\* comes before the mapping is written
RECURSIVE RightLoop(_, _, _, _)
RightLoop(cols, ss, w, click) ==
  IF cols = <<>> THEN [ss |-> ss, rerun |-> FALSE]
  ELSE LET right_col == Head(cols)
       IN  IF right_col \in ss.removed_review_columns
             THEN RightLoop(Tail(cols), ss, w, click)
             ELSE LET left_col == w.mapping_right[right_col]
                  IN  IF click = <<"remove_right", right_col>>
                        THEN [ss |-> [ss EXCEPT
                                        !.column_mapping = Pop(@, left_col),
                                        !.removed_review_columns =
                                           @ \cup {right_col}],
                              rerun |-> TRUE]
                        ELSE RightLoop(
                               Tail(cols),
                               IF left_col # NoMapping
                                 THEN [ss EXCEPT !.column_mapping =
                                         Put(@, left_col, right_col)]
                                 ELSE [ss EXCEPT !.column_mapping =
                                         Pop(@, left_col)],
                               w, click)

\* lines 180-181: an empty mapping becomes {col: col for col in matching_cols}
SeedMapping(m, matching_cols) ==
  IF DOMAIN m = {} THEN [col \in matching_cols |-> col] ELSE m

\* lines 234-291: the two review loops, unless the run has ended
AfterLeft(l, right_only_cols, w, click) ==
  IF l.rerun THEN l ELSE RightLoop(ColSeq(right_only_cols), l.ss, w, click)

AfterAuto(a, left_only_cols, right_only_cols, w, click) ==
  IF a.rerun THEN a
  ELSE AfterLeft(LeftLoop(ColSeq(left_only_cols), a.ss, w, click),
                 right_only_cols, w, click)

\* lines 179-291, cols being the triple get_matching_columns returned
Sections(cols, ss, w, click) ==
  AfterAuto(AutoLoop(ColSeq(cols[1]),
                     [ss EXCEPT !.column_mapping = SeedMapping(@, cols[1])],
                     w, click),
            cols[2], cols[3], w, click)

\* what the mapping section of a run hands on: the session state, the
\* widgets, whether the run ended in st.rerun(), or at the error of line 364
Handed(r, w) ==
  [ss |-> r.ss, w |-> w, rerun |-> r.rerun, size_error |-> FALSE]

\* lines 172-300
AllColumns(ss, w, click, d1, d2) ==
  Handed(Sections(get_matching_columns(Range(d1.columns), Range(d2.columns)),
                  ss, w, click),
         w)

\* ---- "Single column", lines 302-308
SingleColumn(ss, w) ==
  [ss |-> [ss EXCEPT !.column_mapping =
             [k \in {w.single_left} |-> w.single_right]],
   w |-> w, rerun |-> FALSE, size_error |-> FALSE]

\* ---- "Custom columns"
\* mutant of SizeMismatch: the numbers of selected columns are not compared
SizeMismatchIgnored(left_cols_, right_cols_) == FALSE

\* line 363
SizeMismatch(left_cols_, right_cols_) == Len(left_cols_) # Len(right_cols_)

\* the values of the selectboxes mapping_{i} over the options right_cols_:
\* the held value where the selectbox exists with these options, else the
\* first option (no value where there is no option)
MappingChoices(w, left_cols_, right_cols_) ==
  [i \in DOMAIN left_cols_ |->
     IF right_cols_ = <<>> THEN NotSet
     ELSE IF w.mapping_options = right_cols_ /\ i \in DOMAIN w.mapping_i
       THEN w.mapping_i[i] ELSE right_cols_[1]]

\* lines 369-380: column_mapping[left_col] = right_col for every selected
\* left column; no other entry is touched
MapSelected(m, left_cols_, choices) ==
  [k \in (DOMAIN m) \cup Range(left_cols_) |->
     IF k \in Range(left_cols_)
       THEN choices[CHOOSE i \in DOMAIN left_cols_ : left_cols_[i] = k]
       ELSE m[k]]

\* lines 310-380.  A bulk button stores the new list and reruns; the
\* multiselect, drawn with that list as its default, then holds it.
CustomColumns(ss, w, click, d1, d2) ==
  LET Bulk(field, widget, value) ==
        [ss |-> [ss EXCEPT ![field] = value],
         w |-> [w EXCEPT ![widget] = value],
         rerun |-> TRUE, size_error |-> FALSE]
      s1 == [ss EXCEPT !.selected_left_cols = w.left_cols_select]
      s2 == [s1 EXCEPT !.selected_right_cols = w.right_cols_select]
      left_cols_ == w.left_cols_select
      right_cols_ == w.right_cols_select
      choices == MappingChoices(w, left_cols_, right_cols_)
  IN  IF click = <<"add_all_left", "">>
        THEN Bulk("selected_left_cols", "left_cols_select", d1.columns)
      ELSE IF click = <<"remove_all_left", "">>
        THEN Bulk("selected_left_cols", "left_cols_select", <<>>)
      ELSE IF click = <<"add_all_right", "">>
        THEN [Bulk("selected_right_cols", "right_cols_select", d2.columns)
                EXCEPT !.ss.selected_left_cols = w.left_cols_select]
      ELSE IF click = <<"remove_all_right", "">>
        THEN [Bulk("selected_right_cols", "right_cols_select", <<>>)
                EXCEPT !.ss.selected_left_cols = w.left_cols_select]
      ELSE IF SizeMismatch(left_cols_, right_cols_)
        THEN [ss |-> s2, w |-> w, rerun |-> FALSE, size_error |-> TRUE]
      ELSE [ss |-> [s2 EXCEPT !.column_mapping =
                      MapSelected(@, left_cols_, choices)],
            w |-> [w EXCEPT !.mapping_i = choices,
                            !.mapping_options = right_cols_],
            rerun |-> FALSE, size_error |-> FALSE]

\* ---- the comparison and its display
\* mutant of MappingComplete: the button is drawn for an empty mapping too
MappingCompleteAlways(m) == TRUE

\* line 383: if st.session_state.column_mapping
MappingComplete(m) == DOMAIN m # {}

DatasetColumn == <<"Dataset", "">>

\* lines 418-425 and 443-444: the rows the filter keeps; selecting by a
\* label reads the column 'Dataset' and raises KeyError on a frame without it
FilterRows(m, filter_option) ==
  IF filter_option = ShowAll
    THEN [raised |-> FALSE, frame |-> m]
  ELSE IF DatasetColumn \notin Range(m.columns)
    THEN [raised |-> TRUE, frame |-> EmptyFrame]
  ELSE LET Keep(r) == r.Dataset = filter_option
       IN  [raised |-> FALSE, frame |-> [m EXCEPT !.rows = SelectSeq(m.rows, Keep)]]

\* what lines 382-444 leave when compare_datasets is not called
NotInvoked(ss, d1, d2) ==
  [invoked |-> FALSE, args |-> EmptyMapping, after |-> <<d1, d2, ss>>,
   outcome |-> [raised |-> FALSE, merged |-> EmptyFrame, ret |-> <<>>]]

\* lines 393-394, on the caller's objects as the call left them
Stored(o, after) ==
  [after EXCEPT ![3] = [@ EXCEPT !.is_identical = <<o.ret[1]>>,
                                  !.mismatched = <<o.ret[2]>>]]

\* lines 385-396: the call and the storing of what it returned
Invoked(ss, o, after) ==
  [invoked |-> TRUE, args |-> ss.column_mapping,
   after |-> Stored(o, <<after[1], after[2],
                         [ss EXCEPT !.column_mapping = after[3]]>>),
   outcome |-> o]

\* nothing of the result is drawn
NoFilter == [filtered |-> <<>>, filter_error |-> FALSE]

\* lines 418-444: the filtered table, or the error of line 444
Filtered(f) ==
  [filtered |-> IF f.raised THEN <<>> ELSE <<f.frame>>,
   filter_error |-> f.raised]

\* lines 398-444 on the session state ss
Display(ss, w) ==
  IF ss.mismatched # <<>> /\ ~ss.is_identical[1]
    THEN Filtered(FilterRows(ss.mismatched[1], w.filter_option))
    ELSE NoFilter

Shown(c, w) == c @@ Display(c.after[3], w)

\* lines 382-444, on the session state ss the mapping section left
CompareAndShow(ss, w, click, d1, d2, lf, rf, merged0) ==
  IF ~MappingComplete(ss.column_mapping)
    THEN NotInvoked(ss, d1, d2) @@ NoFilter
  ELSE IF click = <<"compare", "">>
    THEN Shown(Invoked(ss,
                       Outcome(d1, d2, ss.column_mapping, lf, rf, merged0),
                       InputsAfter(d1, d2, ss.column_mapping)),
               w)
  ELSE Shown(NotInvoked(ss, d1, d2), w)

\* ---- one pass over main with both files loaded (lines 122-444)
\* lines 138-139
FirstRun(ss, comparison_type) ==
  IF ss.previous_comparison_type = NotSet
    THEN [ss EXCEPT !.previous_comparison_type = comparison_type]
    ELSE ss

\* lines 142-160: the session state rs after the reset, then st.rerun()
ResetPass(ss, rs, w, og, d1, d2) ==
  NotInvoked(rs, d1, d2) @@ NoFilter
  @@ [w |-> w, rerun |-> TRUE, size_error |-> FALSE,
      og |-> [OriginAfter(og, ss.column_mapping, rs.column_mapping,
                          w.comparison_type)
                EXCEPT !.result = IF rs.mismatched = <<>> THEN <<>> ELSE @]]

\* lines 172-380: the section of the selected comparison type
MappingSection(ss, w, click, d1, d2) ==
  CASE w.comparison_type = "All columns" -> AllColumns(ss, w, click, d1, d2)
    [] w.comparison_type = "Single column" -> SingleColumn(ss, w)
    [] w.comparison_type = "Custom columns" ->
         CustomColumns(ss, w, click, d1, d2)

\* the run as a whole: what c shows, with what the mapping section m handed on
Whole(c, m, og1, comparison_type) ==
  c @@ [w |-> m.w, rerun |-> m.rerun, size_error |-> m.size_error,
        og |-> IF c.invoked
                 THEN [og1 EXCEPT !.result = <<comparison_type, c.args>>]
                 ELSE og1]

\* lines 382-444 after the mapping section m, unless the run ended there
AfterMapping(m, ss, w, click, og, d1, d2, lf, rf, merged0) ==
  Whole(IF m.rerun \/ m.size_error
          THEN NotInvoked(m.ss, d1, d2) @@ NoFilter
          ELSE CompareAndShow(m.ss, m.w, click, d1, d2, lf, rf, merged0),
        m,
        OriginAfter(og, ss.column_mapping, m.ss.column_mapping,
                    w.comparison_type),
        w.comparison_type)

PassFrom(ss, w, click, og, d1, d2, lf, rf, merged0) ==
  IF ss.previous_comparison_type # w.comparison_type
    THEN ResetPass(ss, ResetSession(ss, w.comparison_type), w, og, d1, d2)
    ELSE AfterMapping(MappingSection(ss, w, click, d1, d2),
                      ss, w, click, og, d1, d2, lf, rf, merged0)

Pass(ss0, w, click, og, d1, d2, lf, rf, merged0) ==
  PassFrom(FirstRun(ss0, w.comparison_type),
           w, click, og, d1, d2, lf, rf, merged0)

\* a run that ends in st.rerun() is followed by a run without a click
RECURSIVE Script(_, _, _, _, _, _, _, _, _)
Rerun(p, d1, d2, lf, rf, merged0) ==
  IF p.rerun
    THEN Script(p.after[3], p.w, NoClick, p.og, d1, d2, lf, rf, merged0)
    ELSE p

Script(ss, w, click, og, d1, d2, lf, rf, merged0) ==
  Rerun(Pass(ss, w, click, og, d1, d2, lf, rf, merged0),
        d1, d2, lf, rf, merged0)

\* the widget values after the completed run p: the widgets it drew keep
\* their value, the others are back at their default
WidgetsAfter(p, d1, d2) ==
  LET ss == p.after[3]
      w == p.w
      t == w.comparison_type
      cols == get_matching_columns(Range(d1.columns), Range(d2.columns))
      all == t = "All columns"
      auto == IF all THEN (cols[1] \ ss.removed_auto_columns) \cap w.override
                     ELSE {}
      left == IF all THEN cols[2] \ ss.removed_review_columns ELSE {}
      right == IF all THEN cols[3] \ ss.removed_review_columns ELSE {}
      d == DefaultWidgets(d1, d2)
      custom == t = "Custom columns"
      mapped == custom /\ ~p.size_error
  IN  [comparison_type   |-> t,
       override          |-> auto,
       mapping_auto      |-> [c \in ColNames |->
                                IF c \in auto THEN w.mapping_auto[c]
                                              ELSE d.mapping_auto[c]],
       mapping_left      |-> [c \in ColNames |->
                                IF c \in left THEN w.mapping_left[c]
                                              ELSE NoMapping],
       mapping_right     |-> [c \in ColNames |->
                                IF c \in right THEN w.mapping_right[c]
                                               ELSE NoMapping],
       single_left       |-> IF t = "Single column" THEN w.single_left
                                                    ELSE d.single_left,
       single_right      |-> IF t = "Single column" THEN w.single_right
                                                    ELSE d.single_right,
       left_cols_select  |-> IF custom THEN w.left_cols_select ELSE <<>>,
       right_cols_select |-> IF custom THEN w.right_cols_select ELSE <<>>,
       mapping_i         |-> IF mapped THEN w.mapping_i ELSE <<>>,
       mapping_options   |-> IF mapped THEN w.mapping_options ELSE <<>>,
       filter_option     |-> IF p.filtered # <<>> \/ p.filter_error
                               THEN w.filter_option ELSE ShowAll]

\* ----------------------------------------------------------------- state
VARIABLES
  df1,             \* the left dataset passed in
  df2,             \* the right dataset passed in
  column_mapping,  \* the mapping passed in: left column name -> right name
  left_filename,
  right_filename,
  pc,              \* "call" before compare_datasets runs, "returned" after
                   \* (for main: whether its latest run called it)
  merged,          \* the local merged when the try block ran through
  ret,             \* <<>> before the return, then <<is_identical, mismatched>>
  st_error,        \* st.error was called by the except branch
  left_cols,       \* the first argument of get_matching_columns
  right_cols,      \* its second argument
  matcher_ret,     \* <<>> before it returns, then the triple it returns
  session_state,   \* st.session_state: the keys main writes
  widgets,         \* the values of the widgets of the page
  size_error,      \* the latest run ended at the st.error of line 364
  filtered_mismatched,  \* <<>>, or <<the table the filter shows>>
  filter_error,    \* the latest run ended at the st.error of line 444
  origin           \* comparison type that produced the mapping entries
                   \* and the stored result

engine_vars == <<df1, df2, column_mapping, left_filename, right_filename,
                 pc, merged, ret, st_error>>
matcher_vars == <<left_cols, right_cols, matcher_ret>>
ui_vars == <<session_state, widgets, size_error,
             filtered_mismatched, filter_error, origin>>

vars == <<engine_vars, matcher_vars, ui_vars>>

\* every mapping over the column names, the empty one included
Mappings == UNION {[K -> ColNames] : K \in SUBSET ColNames}

\* the cells of the one-column datasets: two values and the missing value
\* (the join tests keys for equality only)
KeyVals == {1, 2, NaN}

\* datasets of one column with up to MaxRows rows, missing values included
NarrowFrames ==
  {[columns |-> <<"a">>, rows |-> rs] :
     rs \in SeqsUpTo({<<v>> : v \in KeyVals}, MaxRows)}

\* datasets of any columns with no row or a single row
WideFrames ==
  UNION {{[columns |-> ColSeq(S), rows |-> rs] :
            rs \in {<<>>} \cup {<<r>> : r \in [1..Cardinality(S) -> Vals]}} :
         S \in SUBSET ColNames \ {{}}}

NotCalled ==
  /\ pc = "call"
  /\ merged = EmptyFrame
  /\ ret = <<>>
  /\ st_error = FALSE

\* many rows, one key column mapped to itself
InitNarrow ==
  /\ df1 \in NarrowFrames
  /\ df2 \in NarrowFrames
  /\ column_mapping = [k \in {"a"} |-> "a"]
  /\ left_filename = "left"
  /\ right_filename \in FileNames
  /\ NotCalled

\* any columns, any mapping
InitWide ==
  /\ df1 \in WideFrames
  /\ df2 \in WideFrames
  /\ column_mapping \in Mappings
  /\ left_filename = "left"
  /\ right_filename = "right"
  /\ NotCalled

\* main is not running
NoUI ==
  /\ session_state = BlankSession
  /\ widgets = DefaultWidgets(df1, df2)
  /\ size_error = FALSE
  /\ filtered_mismatched = <<>>
  /\ filter_error = FALSE
  /\ origin = BlankOrigin

\* get_matching_columns is not called
NoMatcher ==
  /\ left_cols = {}
  /\ right_cols = {}
  /\ matcher_ret = <<>>

Init == (InitNarrow \/ InitWide) /\ NoUI /\ NoMatcher

\* one call of compare_datasets, from entry to return
compare_datasets ==
  /\ pc = "call"
  /\ pc' = "returned"
  /\ LET o == Outcome(df1, df2, column_mapping,
                      left_filename, right_filename, merged)
     IN  /\ st_error' = o.raised
         /\ merged' = o.merged
         /\ ret' = o.ret
  /\ LET after == InputsAfter(df1, df2, column_mapping)
     IN  /\ df1' = after[1]
         /\ df2' = after[2]
         /\ column_mapping' = after[3]
  /\ UNCHANGED <<left_filename, right_filename, matcher_vars, ui_vars>>

Next == compare_datasets

Spec == Init /\ [][Next]_vars

\* ------------------------------------------------------------------- main
\* the datasets loaded into the page: two rows each, a row with the same
\* value in every column; the left columns are a and b, the right a and c
UILeftColumns == {{"a", "b"}}
UIRightColumns == {{"a", "c"}}

UIFrames(colsets, values) ==
  {[columns |-> ColSeq(S),
    rows |-> [n \in DOMAIN vs |-> [i \in 1..Cardinality(S) |-> vs[n]]]] :
     S \in colsets, vs \in values}

\* the pairs of datasets: equal in column a, or without a common value
UIDatasets ==
  (UIFrames(UILeftColumns, {<<1, 2>>}) \X UIFrames(UIRightColumns, {<<1, 2>>}))
  \cup
  (UIFrames(UILeftColumns, {<<1, 1>>}) \X UIFrames(UIRightColumns, {<<2, 2>>}))

\* the page after its first run p with both files loaded
FirstPage(p) ==
  /\ session_state = p.after[3]
  /\ widgets = WidgetsAfter(p, df1, df2)
  /\ size_error = p.size_error
  /\ filtered_mismatched = p.filtered
  /\ filter_error = p.filter_error
  /\ origin = p.og

InitUI ==
  /\ \E pair \in UIDatasets : df1 = pair[1] /\ df2 = pair[2]
  /\ column_mapping = EmptyMapping
  /\ left_filename = "left"
  /\ right_filename \in FileNames
  /\ NotCalled
  /\ left_cols = Range(df1.columns)
  /\ right_cols = Range(df2.columns)
  /\ matcher_ret = get_matching_columns(left_cols, right_cols)
  /\ FirstPage(Script(BlankSession, DefaultWidgets(df1, df2), NoClick,
                      BlankOrigin, df1, df2, left_filename, right_filename,
                      EmptyFrame))

\* the state after the completed run p
Page(p) ==
  /\ session_state' = p.after[3]
  /\ widgets' = WidgetsAfter(p, df1, df2)
  /\ size_error' = p.size_error
  /\ filtered_mismatched' = p.filtered
  /\ filter_error' = p.filter_error
  /\ origin' = p.og
  /\ df1' = p.after[1]
  /\ df2' = p.after[2]
  /\ IF p.invoked
       THEN /\ column_mapping' = p.args
            /\ merged' = p.outcome.merged
            /\ ret' = p.outcome.ret
            /\ st_error' = p.outcome.raised
            /\ pc' = "returned"
       ELSE /\ column_mapping' = EmptyMapping
            /\ merged' = EmptyFrame
            /\ ret' = <<>>
            /\ st_error' = FALSE
            /\ pc' = "call"
  /\ UNCHANGED <<left_filename, right_filename, matcher_vars>>

\* the user sets the widgets to w and clicks the button click (or none):
\* main runs until a run completes
Interact(w, click) ==
  Page(Script(session_state, w, click, origin, df1, df2,
              left_filename, right_filename, EmptyFrame))

\* what the page shows
CurrentType == widgets.comparison_type
Matched == get_matching_columns(Range(df1.columns), Range(df2.columns))
InAllColumns == CurrentType = "All columns"
InCustomColumns == CurrentType = "Custom columns"
AutoShown ==
  IF InAllColumns THEN Matched[1] \ session_state.removed_auto_columns ELSE {}
AutoRemoved ==
  IF InAllColumns THEN Matched[1] \cap session_state.removed_auto_columns ELSE {}
LeftShown ==
  IF InAllColumns THEN Matched[2] \ session_state.removed_review_columns ELSE {}
RightShown ==
  IF InAllColumns THEN Matched[3] \ session_state.removed_review_columns ELSE {}
CompareShown == ~size_error /\ MappingComplete(session_state.column_mapping)
FilterShown == filtered_mismatched # <<>> \/ filter_error

\* the multiselect after one more option is picked or one is taken out
Changes(sel, options) ==
  {Append(sel, c) : c \in Range(options) \ Range(sel)}
  \cup {LET Other(x) == x # c IN SelectSeq(sel, Other) : c \in Range(sel)}

\* ---- the user's interactions
SelectComparisonType ==
  \E t \in ComparisonTypes \ {CurrentType} :
     Interact([widgets EXCEPT !.comparison_type = t], NoClick)

ToggleOverride ==
  \E c \in AutoShown :
     Interact([widgets EXCEPT !.override =
                 IF c \in @ THEN @ \ {c} ELSE @ \cup {c}], NoClick)

SelectMappingAuto ==
  \E c \in AutoShown \cap widgets.override :
     \E r \in Range(df2.columns) \ {widgets.mapping_auto[c]} :
        Interact([widgets EXCEPT !.mapping_auto[c] = r], NoClick)

ClickRemoveAuto ==
  \E c \in AutoShown : Interact(widgets, <<"remove_auto", c>>)

ClickAddBack ==
  \E c \in AutoRemoved : Interact(widgets, <<"add_back_auto", c>>)

SelectMappingLeft ==
  \E c \in LeftShown :
     \E r \in ({NoMapping} \cup Range(df2.columns)) \ {widgets.mapping_left[c]} :
        Interact([widgets EXCEPT !.mapping_left[c] = r], NoClick)

ClickRemoveLeft ==
  \E c \in LeftShown : Interact(widgets, <<"remove_left", c>>)

SelectMappingRight ==
  \E c \in RightShown :
     \E l \in ({NoMapping} \cup Range(df1.columns)) \ {widgets.mapping_right[c]} :
        Interact([widgets EXCEPT !.mapping_right[c] = l], NoClick)

ClickRemoveRight ==
  \E c \in RightShown : Interact(widgets, <<"remove_right", c>>)

SelectSingleLeft ==
  /\ CurrentType = "Single column"
  /\ \E l \in Range(df1.columns) \ {widgets.single_left} :
        Interact([widgets EXCEPT !.single_left = l], NoClick)

SelectSingleRight ==
  /\ CurrentType = "Single column"
  /\ \E r \in Range(df2.columns) \ {widgets.single_right} :
        Interact([widgets EXCEPT !.single_right = r], NoClick)

ClickAddAllLeft ==
  InCustomColumns /\ Interact(widgets, <<"add_all_left", "">>)

ClickRemoveAllLeft ==
  InCustomColumns /\ Interact(widgets, <<"remove_all_left", "">>)

ClickAddAllRight ==
  InCustomColumns /\ Interact(widgets, <<"add_all_right", "">>)

ClickRemoveAllRight ==
  InCustomColumns /\ Interact(widgets, <<"remove_all_right", "">>)

SelectLeftCols ==
  /\ InCustomColumns
  /\ \E sel \in Changes(widgets.left_cols_select, df1.columns) :
        Interact([widgets EXCEPT !.left_cols_select = sel], NoClick)

SelectRightCols ==
  /\ InCustomColumns
  /\ \E sel \in Changes(widgets.right_cols_select, df2.columns) :
        Interact([widgets EXCEPT !.right_cols_select = sel], NoClick)

SelectMapping ==
  \E i \in DOMAIN widgets.mapping_i :
     \E r \in Range(widgets.mapping_options) \ {widgets.mapping_i[i]} :
        Interact([widgets EXCEPT !.mapping_i[i] = r], NoClick)

ClickCompare ==
  CompareShown /\ Interact(widgets, <<"compare", "">>)

SelectFilter ==
  /\ FilterShown
  /\ \E f \in FilterOptions(left_filename, right_filename)
                \ {widgets.filter_option} :
        Interact([widgets EXCEPT !.filter_option = f], NoClick)

NextUI ==
  \/ SelectComparisonType
  \/ ToggleOverride
  \/ SelectMappingAuto
  \/ ClickRemoveAuto
  \/ ClickAddBack
  \/ SelectMappingLeft
  \/ ClickRemoveLeft
  \/ SelectMappingRight
  \/ ClickRemoveRight
  \/ SelectSingleLeft
  \/ SelectSingleRight
  \/ ClickAddAllLeft
  \/ ClickRemoveAllLeft
  \/ ClickAddAllRight
  \/ ClickRemoveAllRight
  \/ SelectLeftCols
  \/ SelectRightCols
  \/ SelectMapping
  \/ ClickCompare
  \/ SelectFilter

SpecUI == InitUI /\ [][NextUI]_vars

\* ============================================================ properties
Returned == pc = "returned"

\* the call returned from the try block
Succeeded == Returned /\ ~st_error

is_identical == ret[1]
mismatched == ret[2]

\* every key names a column of left, every value a column of right
ValidMapping ==
  /\ DOMAIN column_mapping \subseteq Range(df1.columns)
  /\ Range(column_mapping) \subseteq Range(df2.columns)

\* left row i and right row j are equal on every mapped pair of columns,
\* column k of left against column column_mapping[k] of right
MappedMatch(i, j) ==
  \A k \in DOMAIN column_mapping :
     df1.rows[i][ColIdx(df1, k)] = df2.rows[j][ColIdx(df2, column_mapping[k])]

\* the full outer join on the mapped columns has no unmatched row
AllMatched ==
  /\ \A i \in DOMAIN df1.rows : \E j \in DOMAIN df2.rows : MappedMatch(i, j)
  /\ \A j \in DOMAIN df2.rows : \E i \in DOMAIN df1.rows : MappedMatch(i, j)

\* C1: for every valid non-empty mapping the call returns identical = true
\* exactly when the full outer join has only in-both rows and the two
\* datasets have the same number of rows.
C1_IdenticalIffAllInBothAndSameLen ==
  (Returned /\ ValidMapping /\ DOMAIN column_mapping # {})
    => (is_identical <=> (AllMatched /\ FrameLen(df1) = FrameLen(df2)))

\* the tuple of key values of a left row, and of a right row under the mapping
LeftKey(i) == [k \in DOMAIN column_mapping |-> df1.rows[i][ColIdx(df1, k)]]
RightKey(j) ==
  [k \in DOMAIN column_mapping |-> df2.rows[j][ColIdx(df2, column_mapping[k])]]

\* C2: whenever identical is true, every tuple of key values occurs in as
\* many rows of left as of right.
C2_IdenticalMeansEqualKeyBags ==
  (Returned /\ is_identical) =>
    \A t \in {LeftKey(i) : i \in DOMAIN df1.rows}
             \cup {RightKey(j) : j \in DOMAIN df2.rows} :
       Cardinality({i \in DOMAIN df1.rows : LeftKey(i) = t})
         = Cardinality({j \in DOMAIN df2.rows : RightKey(j) = t})

\* the two labels of a row that is not in both
OneSidedLabels == {<<"Only in", left_filename>>, <<"Only in", right_filename>>}

\* C3: after a successful call the differences are exactly the joined rows
\* labelled only-in-left or only-in-right, in the order of the joined table;
\* every other joined row is labelled in-both; identical implies no
\* differences.
C3_DifferencesAreTheOneSidedRows ==
  Succeeded =>
    LET OneSided(r) == r.Dataset \in OneSidedLabels
        InBoth(r) == r.Dataset = InBothLabel(left_filename, right_filename)
    IN  /\ mismatched.columns = merged.columns
        /\ mismatched.rows = SelectSeq(merged.rows, OneSided)
        /\ \A n \in DOMAIN mismatched.rows : ~InBoth(mismatched.rows[n])
        /\ Len(SelectSeq(merged.rows, InBoth))
             = Len(merged.rows) - Len(mismatched.rows)
        /\ is_identical => mismatched.rows = <<>>

\* C3 witness: a successful call whose joined table holds in-both rows and
\* rows of both one-sided kinds, the latter making up the differences
C3_Witness ==
  /\ Succeeded
  /\ left_filename # right_filename
  /\ \E n \in DOMAIN merged.rows :
        merged.rows[n].Dataset = InBothLabel(left_filename, right_filename)
  /\ \E n \in DOMAIN mismatched.rows :
        mismatched.rows[n].Dataset = <<"Only in", left_filename>>
  /\ \E n \in DOMAIN mismatched.rows :
        mismatched.rows[n].Dataset = <<"Only in", right_filename>>

\* the pairs of the full outer join on the mapped columns
MappedJoinPairs ==
  LET I == DOMAIN df1.rows
      J == DOMAIN df2.rows
  IN  {p \in I \X J : MappedMatch(p[1], p[2])}
      \cup {<<i, 0>> : i \in {x \in I : \A j \in J : ~MappedMatch(x, j)}}
      \cup {<<0, j>> : j \in {y \in J : \A i \in I : ~MappedMatch(i, y)}}

\* the pairs of source rows the call joined
JoinedPairs ==
  JoinPairs(df1, Rename(df2, column_mapping), DOMAIN column_mapping)

\* C4: for every valid mapping the call renames right column M[k] to k and
\* joins left column k with right column M[k]; it yields a join result and
\* does not fail.
C4_JoinsLeftKeyWithMappedRightColumn ==
  (Returned /\ ValidMapping /\ DOMAIN column_mapping # {}) =>
    /\ ~st_error
    /\ JoinedPairs = MappedJoinPairs

\* C5: a mapping that names a column absent from its dataset makes the call
\* fail with an error and return nothing.
C5_InvalidMappingReturnsNothing ==
  (Returned /\ ~ValidMapping) => (st_error /\ ret = <<>>)

\* C6: a mapping without entries makes the call fail with an error and
\* return nothing.
C6_EmptyMappingReturnsNothing ==
  (Returned /\ DOMAIN column_mapping = {}) => (st_error /\ ret = <<>>)

\* ---- the join as performed: key column k of df1 against the column that
\* ---- carries the label k in the renamed copy of df2
Keys == DOMAIN column_mapping
df2_renamed == Rename(df2, column_mapping)

\* the key values of right row j, read from the renamed copy
JoinKeyRight(j) ==
  [k \in Keys |-> df2_renamed.rows[j][ColIdx(df2_renamed, k)]]

\* the key values of joined row n (the key columns stand where df1 has them)
MergedKey(n) == [k \in Keys |-> merged.rows[n].vals[ColIdx(df1, k)]]

HasMissing(t) == \E k \in DOMAIN t : t[k] = NaN

LabelledInBoth(n) ==
  merged.rows[n].Dataset = InBothLabel(left_filename, right_filename)

\* C7 as stated: no joined row with a missing key value is in-both, and two
\* non-empty datasets all of whose rows have a missing key value are not
\* identical.
C7_MissingKeysNeverMerge ==
  Succeeded =>
    /\ \A n \in DOMAIN merged.rows :
          HasMissing(MergedKey(n)) => ~LabelledInBoth(n)
    /\ ( /\ df1.rows # <<>>
         /\ df2.rows # <<>>
         /\ \A i \in DOMAIN df1.rows : HasMissing(LeftKey(i))
         /\ \A j \in DOMAIN df2.rows : HasMissing(JoinKeyRight(j)) )
       => ~is_identical

\* C7 as amended: a left row and a right row with the same key values, a
\* missing value among them, are merged: every joined row of that key is
\* in-both and there is one; two datasets of equally many rows, each row with
\* a missing key value and with a row of the same key on the other side, are
\* identical.
C7_MissingKeysMerge ==
  Succeeded =>
    /\ \A i \in DOMAIN df1.rows : \A j \in DOMAIN df2.rows :
          (HasMissing(LeftKey(i)) /\ LeftKey(i) = JoinKeyRight(j)) =>
            /\ \E n \in DOMAIN merged.rows :
                  MergedKey(n) = LeftKey(i) /\ LabelledInBoth(n)
            /\ \A n \in DOMAIN merged.rows :
                  MergedKey(n) = LeftKey(i) => LabelledInBoth(n)
    /\ ( /\ df1.rows # <<>>
         /\ FrameLen(df1) = FrameLen(df2)
         /\ \A i \in DOMAIN df1.rows :
               /\ HasMissing(LeftKey(i))
               /\ \E j \in DOMAIN df2.rows : LeftKey(i) = JoinKeyRight(j)
         /\ \A j \in DOMAIN df2.rows :
               /\ HasMissing(JoinKeyRight(j))
               /\ \E i \in DOMAIN df1.rows : LeftKey(i) = JoinKeyRight(j) )
       => is_identical

\* C7 witness: both datasets hold a row whose key is missing besides rows
\* with a value, and the call reported them identical
C7_Witness ==
  /\ Succeeded
  /\ is_identical
  /\ \E i \in DOMAIN df1.rows : HasMissing(LeftKey(i))
  /\ \E i \in DOMAIN df1.rows : ~HasMissing(LeftKey(i))
  /\ \E n \in DOMAIN merged.rows :
        HasMissing(MergedKey(n)) /\ LabelledInBoth(n)

\* C8: the joined table is the full outer join on the mapped columns: a key
\* tuple held by m left rows and n right rows (right rows read through the
\* mapping) has m*n joined rows, all in-both, when m and n are positive, and
\* otherwise m+n joined rows, all labelled with the side that holds the key.
C8_FullOuterJoinOnMappedColumns ==
  Succeeded =>
    LET LeftKeys == {LeftKey(i) : i \in DOMAIN df1.rows}
        RightKeys == {RightKey(j) : j \in DOMAIN df2.rows}
    IN  /\ \A x \in DOMAIN merged.rows : MergedKey(x) \in LeftKeys \cup RightKeys
        /\ \A t \in LeftKeys \cup RightKeys :
              LET m == Cardinality({i \in DOMAIN df1.rows : LeftKey(i) = t})
                  n == Cardinality({j \in DOMAIN df2.rows : RightKey(j) = t})
                  rows == {x \in DOMAIN merged.rows : MergedKey(x) = t}
              IN  IF m > 0 /\ n > 0
                    THEN /\ Cardinality(rows) = m * n
                         /\ \A x \in rows : LabelledInBoth(x)
                    ELSE /\ Cardinality(rows) = m + n
                         /\ \A x \in rows :
                               merged.rows[x].Dataset =
                                 <<"Only in", IF m > 0 THEN left_filename
                                                       ELSE right_filename>>

Injective(M) == \A k1, k2 \in DOMAIN M : M[k1] = M[k2] => k1 = k2

\* position of a column name in file order
Pos(c) == CHOOSE n \in DOMAIN ColOrder : ColOrder[n] = c

\* invert(M): every entry with key and value swapped; of several keys with
\* one value the inverse can keep only one, here the last in file order
Invert(M) ==
  [v \in Range(M) |->
     CHOOSE k \in DOMAIN M :
        /\ M[k] = v
        /\ \A k2 \in DOMAIN M : M[k2] = v => Pos(k2) <= Pos(k)]

\* C9 as stated: the identical flag of compare(L, R, M) equals that of
\* compare(R, L, invert(M)), for every mapping M the engine accepts (not
\* empty, every key a column of left, every value a column of right).
C9_IdenticalIsSymmetricForEveryMapping ==
  (Returned /\ ValidMapping /\ DOMAIN column_mapping # {}) =>
    is_identical = ReturnOf(df2, df1, Invert(column_mapping),
                            right_filename, left_filename)[1]

\* C9 as amended: the identical flag of compare(L, R, M) equals that of
\* compare(R, L, invert(M)), for every mapping M in which no two keys have
\* the same value.
C9_IdenticalIsSymmetric ==
  (Returned /\ Injective(column_mapping)) =>
    is_identical = ReturnOf(df2, df1, Invert(column_mapping),
                            right_filename, left_filename)[1]

\* C9 witness: identical datasets compared under a mapping that renames
C9_Witness ==
  /\ Returned
  /\ Injective(column_mapping)
  /\ \E k \in Keys : column_mapping[k] # k
  /\ df1.rows # <<>>
  /\ is_identical

\* the source rows of the joined rows, in the order of the joined table
Provenance == MergePairs(df1, df2_renamed, Keys)

NoDuplicateKeys ==
  /\ \A i1, i2 \in DOMAIN df1.rows : LeftKey(i1) = LeftKey(i2) => i1 = i2
  /\ \A j1, j2 \in DOMAIN df2.rows : JoinKeyRight(j1) = JoinKeyRight(j2) => j1 = j2

\* number of joined rows of one classification, ps being their source rows
CountOf(ps, code) ==
  Cardinality({n \in DOMAIN merged.rows : Indicator(ps[n]) = code})

\* C10: the in-both and only-in-left rows come from at most |left| distinct
\* left rows, the in-both and only-in-right rows from at most |right|
\* distinct right rows; without duplicate keys, count(in-both) +
\* count(only-in-left) = |left| and count(in-both) + count(only-in-right) =
\* |right|.
C10_RowCountConservation ==
  Succeeded =>
    LET ps == Provenance
    IN  /\ DOMAIN merged.rows = DOMAIN ps
        /\ \A n \in DOMAIN merged.rows :
              merged.rows[n].Dataset =
                DatasetLabel(Indicator(ps[n]), left_filename, right_filename)
        /\ Cardinality({ps[n][1] : n \in DOMAIN ps} \ {0}) <= FrameLen(df1)
        /\ Cardinality({ps[n][2] : n \in DOMAIN ps} \ {0}) <= FrameLen(df2)
        /\ NoDuplicateKeys =>
             /\ CountOf(ps, "both") + CountOf(ps, "left_only") = FrameLen(df1)
             /\ CountOf(ps, "both") + CountOf(ps, "right_only") = FrameLen(df2)

\* C10 witness: no duplicate keys, and rows of all three classifications
C10_Witness ==
  /\ Succeeded
  /\ NoDuplicateKeys
  /\ LET ps == Provenance
     IN  /\ CountOf(ps, "both") > 0
         /\ CountOf(ps, "left_only") > 0
         /\ CountOf(ps, "right_only") > 0

\* ------------------------------------------ get_matching_columns on its own
\* compare_datasets is not called
NoEngine ==
  /\ df1 = [columns |-> <<"a">>, rows |-> <<>>]
  /\ df2 = [columns |-> <<"a">>, rows |-> <<>>]
  /\ column_mapping = EmptyMapping
  /\ left_filename = "left"
  /\ right_filename = "right"
  /\ NotCalled

\* any two sets of column names
InitMatch ==
  /\ left_cols \in SUBSET ColNames
  /\ right_cols \in SUBSET ColNames
  /\ matcher_ret = <<>>
  /\ NoEngine
  /\ NoUI

\* one call of get_matching_columns
MatchColumns ==
  /\ matcher_ret = <<>>
  /\ matcher_ret' = get_matching_columns(left_cols, right_cols)
  /\ UNCHANGED <<left_cols, right_cols, engine_vars, ui_vars>>

NextMatch == MatchColumns

SpecMatch == InitMatch /\ [][NextMatch]_vars

\* C11: get_matching_columns(A, B) returns (A \cap B, A \ B, B \ A); the
\* three sets are pairwise disjoint and their union is A \cup B.
C11_MatcherPartition ==
  matcher_ret # <<>> =>
    LET matching == matcher_ret[1]
        left_only == matcher_ret[2]
        right_only == matcher_ret[3]
    IN  /\ matching = left_cols \cap right_cols
        /\ left_only = left_cols \ right_cols
        /\ right_only = right_cols \ left_cols
        /\ matching \cap left_only = {}
        /\ matching \cap right_only = {}
        /\ left_only \cap right_only = {}
        /\ matching \cup left_only \cup right_only = left_cols \cup right_cols

\* C11 witness: a call that returned three non-empty sets
C11_Witness ==
  /\ matcher_ret # <<>>
  /\ matcher_ret[1] # {}
  /\ matcher_ret[2] # {}
  /\ matcher_ret[3] # {}

\* C13: after a successful call, a name that a left column and a right
\* column share and that is no key and no value of the mapping labels two
\* columns of the joined table, name_x and name_y; name_x holds the left
\* rows' values, name_y the right rows' values (missing where the joined row
\* has no row of that side), and no column is labelled with the bare name.
C13_CollidingColumnsBothKept ==
  Succeeded =>
    LET ps == Provenance
    IN  \A c \in (Range(df1.columns) \cap Range(df2.columns))
                   \ (Keys \cup Range(column_mapping)) :
          /\ Occurs(merged, <<c, "_x">>) = 1
          /\ Occurs(merged, <<c, "_y">>) = 1
          /\ Occurs(merged, <<c, "">>) = 0
          /\ \A n \in DOMAIN merged.rows :
                /\ merged.rows[n].vals[ColIdx(merged, <<c, "_x">>)] =
                     IF ps[n][1] # 0 THEN df1.rows[ps[n][1]][ColIdx(df1, c)]
                                     ELSE NaN
                /\ merged.rows[n].vals[ColIdx(merged, <<c, "_y">>)] =
                     IF ps[n][2] # 0 THEN df2.rows[ps[n][2]][ColIdx(df2, c)]
                                     ELSE NaN

\* C13 witness: a joined row of both sides whose two columns of the shared
\* name hold different values
C13_Witness ==
  /\ Succeeded
  /\ \E c \in (Range(df1.columns) \cap Range(df2.columns))
                \ (Keys \cup Range(column_mapping)) :
        \E n \in DOMAIN merged.rows :
           /\ LabelledInBoth(n)
           /\ merged.rows[n].vals[ColIdx(merged, <<c, "_x">>)]
                # merged.rows[n].vals[ColIdx(merged, <<c, "_y">>)]

StoredResultShown ==
  /\ CompareShown
  /\ session_state.mismatched # <<>>

\* C14: when the stored result is shown as different, the table under the
\* filter is the stored differences for "Show All", and for a label the
\* rows of the stored differences that carry the label, in their order.
C14_FilterKeepsTheLabelledRows ==
  (StoredResultShown /\ ~session_state.is_identical[1]) =>
    LET stored == session_state.mismatched[1]
        Keep(r) == r.Dataset = widgets.filter_option
    IN  filtered_mismatched =
          IF widgets.filter_option = ShowAll
            THEN <<stored>>
            ELSE <<[stored EXCEPT !.rows = SelectSeq(stored.rows, Keep)]>>

\* C15: compare_datasets is called only with a mapping that is not empty,
\* whose keys are columns of the left dataset and whose values are columns
\* of the right dataset.
C15_CalledWithValidMapping ==
  Returned => (DOMAIN column_mapping # {} /\ ValidMapping)

\* C15 witness: a call in "Custom columns" with a mapping of two entries,
\* one of them between columns of different names
C15_Witness ==
  /\ Returned
  /\ InCustomColumns
  /\ Cardinality(DOMAIN column_mapping) = 2
  /\ \E k \in DOMAIN column_mapping : column_mapping[k] # k

\* C16: in "Custom columns", while the numbers of selected left and right
\* columns differ, the run shows the error and does not call
\* compare_datasets.
C16_SizeMismatchBlocksComparison ==
  ( /\ InCustomColumns
    /\ Len(session_state.selected_left_cols)
         # Len(session_state.selected_right_cols) )
  => (size_error /\ ~Returned)

\* C16 witness: the numbers differ while the session holds a mapping
C16_Witness ==
  /\ InCustomColumns
  /\ Len(session_state.selected_left_cols)
       # Len(session_state.selected_right_cols)
  /\ DOMAIN session_state.column_mapping # {}
  /\ size_error

\* every mapping entry and the stored result were produced under the
\* comparison type now selected
OriginsCurrent ==
  /\ session_state.previous_comparison_type = CurrentType
  /\ \A k \in DOMAIN session_state.column_mapping :
        origin.mapping[k] = CurrentType
  /\ session_state.mismatched # <<>> => origin.result[1] = CurrentType

\* the session state of the first run under the comparison type t of a
\* session that holds nothing, the widgets being w
FromBlank(t, w) ==
  Script([BlankSession EXCEPT !.previous_comparison_type = t],
         [w EXCEPT !.comparison_type = t], NoClick, BlankOrigin,
         df1, df2, left_filename, right_filename, EmptyFrame).after[3]

\* C17: when the comparison type is changed, the session state the run
\* leaves is that of a session without mapping, removed columns, selected
\* columns and result; and at any time every mapping entry and the stored
\* result were produced under the comparison type selected.
C17_TypeChangeClearsSession ==
  [][ /\ widgets'.comparison_type # widgets.comparison_type =>
           /\ session_state' = FromBlank(widgets'.comparison_type, widgets)
           /\ session_state'.mismatched = <<>>
           /\ session_state'.is_identical = <<>>
      /\ OriginsCurrent' ]_vars

\* C17 witness: a result stored under a comparison type the user changed to
C17_Witness ==
  /\ InCustomColumns
  /\ StoredResultShown
  /\ OriginsCurrent

\* C18: in "All columns" no removed automatically mapped column is a key of
\* the session mapping.
C18_RemovedColumnsStayOut ==
  InAllColumns =>
    \A c \in session_state.removed_auto_columns :
       c \notin DOMAIN session_state.column_mapping

\* C19: in "Custom columns" the mapping compare_datasets is called with has
\* the selected left columns as its keys and selected right columns as its
\* values.
C19_CustomMappingIsTheSelection ==
  (Returned /\ InCustomColumns) =>
    /\ DOMAIN column_mapping = Range(session_state.selected_left_cols)
    /\ Range(column_mapping) \subseteq Range(session_state.selected_right_cols)

\* C20: a result on the page was computed by compare_datasets from the
\* mapping the session holds.
C20_ShownResultIsOfCurrentMapping ==
  StoredResultShown => origin.result[2] = session_state.column_mapping

\* C21: when compare_datasets returns identical = false the differences it
\* returns hold at least one row; a table of differences without rows is
\* returned only together with identical = true.
C21_DifferentMeansDifferencesShown ==
  Returned => (~is_identical => FrameLen(mismatched) > 0)

\* C22: in "All columns" every automatically mapped column that is not
\* removed and whose "Override mapping" box is unchecked is mapped, in the
\* session mapping, to the right column of its own name.
C22_UncheckedOverrideMapsToSameName ==
  \A col \in AutoShown \ widgets.override :
     /\ col \in DOMAIN session_state.column_mapping
     /\ session_state.column_mapping[col] = col

====
